---------------------------- MODULE Spec2Model ----------------------------
(* Model of the chart scrapers src/scraper.py (Billboard Hot 100 / 200,    *)
(* upsert store path) and src/uk_scraper.py (UK Official Charts,           *)
(* delete-then-insert store path).                                         *)
(*                                                                         *)
(* Python strings are sequences of one-character strings.  Optional[int]   *)
(* values are naturals, with None encoded as -1 (no function of the        *)
(* program returns a negative integer: every conversion is guarded by      *)
(* str.isdigit() or by the regular expression \d+).                        *)
EXTENDS Integers, Sequences, FiniteSets, Bags, TLC

VARIABLES
    value,      \* safe_int: the argument of the call under check
    ret,        \* safe_int: what the call returned
    pc,         \* position of the program / of the call under check
    parser,     \* the parser under check
    page,       \* the page handed to the parser
    today,      \* the current date (dt.date.today(), datetime.now().date())
    entries,    \* the entries the parser returned: the batch of the chart
    prog,       \* the script that runs: "scraper" or "uk_scraper"
    chart,      \* which chart of the script is in progress (1 or 2)
    store,      \* the persisted rows: a bag of rows for each table
    log,        \* the requests of the chart in progress, oldest first
    runs,       \* how many times the script has been started
    prev        \* the preceding store call on the table: batch and result

vars ==
    <<value, ret, pc, parser, page, today, entries, prog, chart, store, log,
      runs, prev>>

pipeline == <<prog, chart, store, log, runs, prev>>

--------------------------------------------------------------------------
(* Bounds *)

MaxLen == 3          \* longest metric token handed to safe_int
MaxItems == 2        \* most item containers on a page handed to a parser
MaxRuns == 2         \* most runs of a script in one behaviour
MaxCalls == 3        \* most store calls on a table in one behaviour

--------------------------------------------------------------------------
(* Python values and str methods *)

None == -1           \* Python None of an Optional[int]
Raised == -2         \* a ValueError raised by int() or float()

DecimalChars == {"0", "1", "2", "7"}
SuperDigit == "^2"   \* U+00B2: str.isdigit() is True, int() raises ValueError
DigitChars == DecimalChars \cup {SuperDigit}
Whitespace == {" "}
Alphabet ==
    DigitChars \cup Whitespace \cup
    {",", ".", "-", "+", "/", "n", "N", "e", "E", "w", "r", "R", "a"}

DigitVal(c) ==
    CASE c = "0" -> 0 [] c = "1" -> 1 [] c = "2" -> 2 [] c = "7" -> 7

\* str.lower(), character by character
LowerChar(c) ==
    CASE c = "N" -> "n" [] c = "E" -> "e" [] c = "R" -> "r" [] c = "W" -> "w"
      [] c = "A" -> "a" [] c = "L" -> "l" [] c = "P" -> "p" [] c = "K" -> "k"
      [] c = "S" -> "s" [] OTHER -> c

\* str.upper(), character by character
UpperChar(c) ==
    CASE c = "n" -> "N" [] c = "e" -> "E" [] c = "r" -> "R" [] c = "w" -> "W"
      [] c = "a" -> "A" [] c = "l" -> "L" [] c = "p" -> "P" [] c = "k" -> "K"
      [] c = "s" -> "S" [] OTHER -> c

Upper(s) == [i \in 1..Len(s) |-> UpperChar(s[i])]

Lower(s) == [i \in 1..Len(s) |-> LowerChar(s[i])]

\* s.replace(c, "")
RemoveAll(s, c) == SelectSeq(s, LAMBDA x : x # c)

\* s.replace(c, "", 1)
RECURSIVE RemoveFirst(_, _)
RemoveFirst(s, c) ==
    IF s = <<>> THEN <<>>
    ELSE IF Head(s) = c THEN Tail(s)
    ELSE <<Head(s)>> \o RemoveFirst(Tail(s), c)

RECURSIVE LStrip(_)
LStrip(s) ==
    IF s # <<>> /\ Head(s) \in Whitespace THEN LStrip(Tail(s)) ELSE s

RECURSIVE RStrip(_)
RStrip(s) ==
    IF s # <<>> /\ s[Len(s)] \in Whitespace
    THEN RStrip(SubSeq(s, 1, Len(s) - 1)) ELSE s

\* s.strip()
Strip(s) == RStrip(LStrip(s))

\* s.isdigit(): non-empty and every character is a digit character
IsDigit(s) == s # <<>> /\ \A i \in 1..Len(s) : s[i] \in DigitChars

\* a non-empty string of the decimal digits 0-9
AllDecimal(s) == s # <<>> /\ \A i \in 1..Len(s) : s[i] \in DecimalChars

\* c in s
Contains(s, c) == \E i \in 1..Len(s) : s[i] = c

\* int(s) for a string of decimal digits
RECURSIVE IntOf(_)
IntOf(s) ==
    IF s = <<>> THEN 0
    ELSE 10 * IntOf(SubSeq(s, 1, Len(s) - 1)) + DigitVal(s[Len(s)])

\* int(s) and float(s) raise ValueError on a digit that is not decimal
RaisesValueError(s) == \E i \in 1..Len(s) : s[i] = SuperDigit

RECURSIVE Pow10(_)
Pow10(n) == IF n = 0 THEN 1 ELSE 10 * Pow10(n - 1)

\* float(s) for digits with one ".": the digits over a power of ten
FloatOf(s) ==
    LET dot == CHOOSE i \in 1..Len(s) : s[i] = "."
    IN  [num |-> IntOf(RemoveFirst(s, ".")), den |-> Pow10(Len(s) - dot)]

\* int(f): truncation toward zero of a non-negative float
IntOfFloat(f) == f.num \div f.den

NullWords == {<<"n", "e", "w">>, <<"r", "e">>, <<"n", "/", "a">>, <<"-">>}

\* the body of the try statement of safe_int; Raised for a ValueError
safe_int_try(v) ==
    IF IsDigit(v)
    THEN IF RaisesValueError(v) THEN Raised ELSE IntOf(v)
    ELSE IF Contains(v, ".") /\ IsDigit(RemoveFirst(v, "."))
         THEN IF RaisesValueError(v) THEN Raised ELSE IntOfFloat(FloatOf(v))
    ELSE None

\* safe_int from the test for the words without a number on; the except
\* clause turns a ValueError into None
safe_int_cleaned(v) ==
    IF Lower(v) \in NullWords THEN None
    ELSE IF safe_int_try(v) = Raised THEN None
    ELSE safe_int_try(v)

\* safe_int without the removal of the thousands separators
safe_int_keeps_commas(v) ==
    IF v = <<>> THEN None
    ELSE safe_int_cleaned(Strip(v))

safe_int(v) ==
    IF v = <<>> THEN None
    ELSE safe_int_cleaned(Strip(RemoveAll(v, ",")))

--------------------------------------------------------------------------
(* The parsed page (BeautifulSoup).  A page is the sequence of its item     *)
(* containers in document order; a container is the sequence of its         *)
(* descendant elements in document order, each a leaf with a tag name, a    *)
(* class list, an id, a text and (for img) its three source attributes.     *)

NoDate == "None"     \* extract_chart_date found no date
Dates == {"2025-11-15", "2025-11-22"}

\* the sentinels; a title or artist text is never looked into, and is written
\* as one token
UnknownTitle == <<"Unknown Title">>
UnknownAlbum == <<"Unknown Album">>
UnknownArtist == <<"Unknown Artist">>

LabelLW == <<"L", "W">>
LabelPEAK == <<"P", "E", "A", "K">>
LabelWEEKS == <<"W", "E", "E", "K", "S">>
LabelWKS == <<"W", "K", "S">>

\* class_="c-label a-font-primary-bold-l u-font-size-32@tablet ..."
RankClass ==
    {"c-label", "a-font-primary-bold-l", "u-font-size-32@tablet",
     "u-letter-spacing-0080@tablet"}

\* el.get_text(strip=True) of a leaf element
GetText(el) == Strip(el.text)

\* container.find(...), select_one(...): of the positions of the descendants
\* that match, the first in document order, 0 for None
First(hits) ==
    IF hits = {} THEN 0 ELSE CHOOSE i \in hits : \A j \in hits : i <= j

\* re.search(r"\d+", s): whether it matches, and the text of the match
HasDigits(s) == \E i \in 1..Len(s) : s[i] \in DecimalChars

RECURSIVE DigitPrefix(_)
DigitPrefix(s) ==
    IF s = <<>> \/ Head(s) \notin DecimalChars THEN <<>>
    ELSE <<Head(s)>> \o DigitPrefix(Tail(s))

RECURSIVE FirstDigitRun(_)
FirstDigitRun(s) ==
    IF s = <<>> THEN <<>>
    ELSE IF Head(s) \in DecimalChars THEN DigitPrefix(s)
    ELSE FirstDigitRun(Tail(s))

\* the elements of the whole document, container after container
RECURSIVE Flatten(_)
Flatten(containers) ==
    IF containers = <<>> THEN <<>>
    ELSE Head(containers).els \o Flatten(Tail(containers))

\* where the elements of container i begin in the document
Offset(containers, i) == Len(Flatten(SubSeq(containers, 1, i - 1)))

extract_chart_date(soup) == soup.week_of

\* extract_metric_number(container, label) for container i of the page
extract_metric_number(soup, i, label) ==
    LET els == soup.containers[i].els
        doc == Flatten(soup.containers)
        IsLabel(t) == t.name \in {"span", "div"} /\ GetText(t) = label
        label_tag == First({k \in 1..Len(els) : IsLabel(els[k])})
        start == Offset(soup.containers, i) + label_tag
        IsValue(t) ==
            t.name \in {"span", "div"} /\ IsDigit(RemoveAll(GetText(t), "-"))
        \* label_tag.find_next(...): the elements after the label in the
        \* document, which does not end with the container
        value_tag == First({k \in start + 1..Len(doc) : IsValue(doc[k])})
        text == GetText(doc[value_tag])
    IN  IF label_tag = 0 THEN None
        ELSE IF value_tag = 0 THEN None
        ELSE IF ~IsDigit(text) THEN None
        ELSE IF RaisesValueError(text) THEN None
        ELSE IntOf(text)

\* soup.select(selector k): the containers the k-th selector matches
Select(soup, kinds) ==
    SelectSeq([i \in 1..Len(soup.containers) |-> i],
              LAMBDA i : soup.containers[i].kind \in kinds)

\* the containers every selector matches, taken together
Cascade_every_selector(soup, selectors) ==
    Select(soup, UNION {selectors[k] : k \in 1..Len(selectors)})

\* the selector cascade: the first selector with a match, else nothing
Cascade(soup, selectors) ==
    LET hits == {k \in 1..Len(selectors) : Select(soup, selectors[k]) # <<>>}
    IN  IF hits = {} THEN <<>>
        ELSE Select(soup, selectors[CHOOSE k \in hits : \A j \in hits : k <= j])

BillboardSelectors ==
    << {"ul.o-chart-results-list-row"},
       {"li.o-chart-results-list__item"},
       {"li.chart-list__element"} >>

\* the rank of the container found at 1-based position pos of the rows
billboard_rank(els, pos) ==
    LET IsBold(t) == t.name = "span" /\ t.class = RankClass
        IsDigitLabel(t) ==
            t.name = "span" /\ "c-label" \in t.class /\ HasDigits(GetText(t))
        bold == First({k \in 1..Len(els) : IsBold(els[k])})
        rank_el == IF bold # 0 THEN bold ELSE First({k \in 1..Len(els) : IsDigitLabel(els[k])})
    IN  IF rank_el # 0 /\ HasDigits(GetText(els[rank_el]))
        THEN IntOf(FirstDigitRun(GetText(els[rank_el])))
        ELSE pos

billboard_title(els, sentinel) ==
    LET IsStory(t) == t.name = "h3" /\ t.id = "title-of-a-story"
        IsH3(t) == t.name = "h3"
        story == First({k \in 1..Len(els) : IsStory(els[k])})
        title_el == IF story # 0 THEN story ELSE First({k \in 1..Len(els) : IsH3(els[k])})
    IN  IF title_el # 0 THEN GetText(els[title_el]) ELSE sentinel

billboard_artist(els) ==
    LET IsArtist(t) ==
            /\ t.name = "span"
            /\ "c-label" \in t.class
            /\ ("a-no-trucate" \in t.class \/ "a-font-primary-s" \in t.class)
        IsLabel(t) == t.name = "span" /\ "c-label" \in t.class
        strict == First({k \in 1..Len(els) : IsArtist(els[k])})
        artist_el == IF strict # 0 THEN strict ELSE First({k \in 1..Len(els) : IsLabel(els[k])})
    IN  IF artist_el # 0 THEN GetText(els[artist_el]) ELSE UnknownArtist

\* img_el.get("data-lazy-img") or img_el.get("data-src") or img_el.get("src")
billboard_cover(els) ==
    LET IsImg(t) == t.name = "img"
        img_el == First({k \in 1..Len(els) : IsImg(els[k])})
        a == els[img_el].attrs
    IN  IF img_el = 0 THEN ""
        ELSE IF a[1] # "" THEN a[1] ELSE IF a[2] # "" THEN a[2] ELSE a[3]

\* one iteration of the loop of parse_hot_100_items
hot_100_entry(soup, day, rows, pos) ==
    LET els == soup.containers[rows[pos]].els
        date == extract_chart_date(soup)
    IN  [chart_date |-> IF date = NoDate THEN day ELSE date,
         rank |-> billboard_rank(els, pos),
         title |-> billboard_title(els, UnknownTitle),
         artist |-> billboard_artist(els),
         last_week_rank |-> extract_metric_number(soup, rows[pos], LabelLW),
         peak_rank |-> extract_metric_number(soup, rows[pos], LabelPEAK),
         weeks_on_chart |-> extract_metric_number(soup, rows[pos], LabelWEEKS)]

parse_hot_100_items(soup, day) ==
    LET rows == Cascade(soup, BillboardSelectors)
    IN  [pos \in 1..Len(rows) |-> hot_100_entry(soup, day, rows, pos)]

\* one iteration of the loop of parse_billboard_200_items
billboard_200_entry(soup, day, rows, pos) ==
    LET els == soup.containers[rows[pos]].els
        date == extract_chart_date(soup)
    IN  [chart_date |-> IF date = NoDate THEN day ELSE date,
         rank |-> billboard_rank(els, pos),
         title |-> billboard_title(els, UnknownAlbum),
         artist |-> billboard_artist(els),
         last_week_rank |-> extract_metric_number(soup, rows[pos], LabelLW),
         peak_rank |-> extract_metric_number(soup, rows[pos], LabelPEAK),
         weeks_on_chart |-> extract_metric_number(soup, rows[pos], LabelWEEKS),
         cover_image_url |-> billboard_cover(els)]

parse_billboard_200_items(soup, day) ==
    LET rows == Cascade(soup, BillboardSelectors)
    IN  [pos \in 1..Len(rows) |-> billboard_200_entry(soup, day, rows, pos)]

\* the date on the page, with no current date in its place when there is none
extract_chart_date_from_soup_no_fallback(soup, day) == soup.week_of

\* extract_chart_date_from_soup: the start of the "D Month YYYY - D Month
\* YYYY" range of the page text when the page has no date header element;
\* with a header element, or without a range, the current date
extract_chart_date_from_soup(soup, day) ==
    IF ~soup.date_header /\ soup.week_of # NoDate THEN soup.week_of ELSE day

OfficialChartsSelectors ==
    << {"ol.chart-listing > li.chart-listing-item"},
       {"ol.chart-listing > li.chart-listing-item", "ol > li"},
       {".chart-item-content"} >>

\* item.select_one("." + class): the first descendant with the class
SelectOne(els, cls) ==
    LET HasClass(t) == cls \in t.class
    IN  First({k \in 1..Len(els) : HasClass(els[k])})

\* The loop over the .metric-chart-stat elements of the item for one of
\* lw, peak, weeks: the value of the last stat titled label, None at first
RECURSIVE official_metric(_, _, _)
official_metric(stats, label, acc) ==
    IF stats = <<>> THEN acc
    ELSE LET stat == Head(stats)
             title_el == SelectOne(stat, "metric-chart-stat-title")
             value_el == SelectOne(stat, "metric-chart-stat-value")
         IN  IF /\ title_el # 0
                /\ value_el # 0
                /\ Upper(GetText(stat[title_el])) = label
             THEN official_metric(Tail(stats), label,
                                  safe_int(GetText(stat[value_el])))
             ELSE official_metric(Tail(stats), label, acc)

official_rank(els, pos) ==
    LET rank_el == SelectOne(els, "chart-listing-item-rank-text")
    IN  IF rank_el # 0 THEN safe_int(GetText(els[rank_el])) ELSE pos

official_title(els) ==
    LET title_el == SelectOne(els, "chart-name")
    IN  IF title_el # 0 THEN GetText(els[title_el]) ELSE UnknownTitle

official_artist(els) ==
    LET artist_el == SelectOne(els, "chart-artist")
    IN  IF artist_el # 0 THEN GetText(els[artist_el]) ELSE UnknownArtist

\* whether the loop of parse_officialcharts_soup skips the item
official_skips(els) ==
    official_title(els) = UnknownTitle /\ official_artist(els) = UnknownArtist

\* the entry the loop of parse_officialcharts_soup appends for an item
official_entry(item, chart_date, pos) ==
    LET stats == IF item.has_stats THEN item.stats ELSE <<>>
    IN  [rank |-> official_rank(item.els, pos),
         title |-> official_title(item.els),
         artist |-> official_artist(item.els),
         last_week_rank |-> official_metric(stats, LabelLW, None),
         peak_rank |-> official_metric(stats, LabelPEAK, None),
         weeks_on_chart |-> official_metric(stats, LabelWKS, None),
         chart_date |-> chart_date]

RECURSIVE official_loop(_, _, _, _)
official_loop(soup, chart_date, rows, pos) ==
    IF pos > Len(rows) THEN <<>>
    ELSE LET item == soup.containers[rows[pos]]
             rest == official_loop(soup, chart_date, rows, pos + 1)
         IN  IF official_skips(item.els) THEN rest
             ELSE <<official_entry(item, chart_date, pos)>> \o rest

parse_officialcharts_soup(soup, day) ==
    official_loop(soup, extract_chart_date_from_soup(soup, day),
                  Cascade(soup, OfficialChartsSelectors), 1)

--------------------------------------------------------------------------
(* The store (Supabase REST) and the two store paths                        *)

Programs == {"scraper", "uk_scraper"}

\* the charts of a script, in the order its entry point runs them
Charts(p) ==
    IF p = "scraper" THEN <<"hot_100", "billboard_200">>
    ELSE <<"singles-chart", "albums-chart">>

TableOf(c) ==
    CASE c = "hot_100" -> "hot_100_entries"
      [] c = "billboard_200" -> "billboard_200_entries"
      [] c = "singles-chart" -> "uk_singles_entries"
      [] c = "albums-chart" -> "uk_albums_entries"

ParserOf(c) ==
    CASE c = "hot_100" -> "hot_100"
      [] c = "billboard_200" -> "billboard_200"
      [] OTHER -> "officialcharts"

Tables ==
    {"hot_100_entries", "billboard_200_entries", "uk_singles_entries",
     "uk_albums_entries"}

\* what a request can come to: a 2xx response, a response that is not 2xx,
\* or no response (timeout, connection failure: requests raises)
Responses == {"ok", "rejected", "exception"}

Request(method, table, status) ==
    [method |-> method, table |-> table, status |-> status]

RECURSIVE SeqToBag(_)
SeqToBag(q) ==
    IF q = <<>> THEN EmptyBag ELSE SetToBag({Head(q)}) (+) SeqToBag(Tail(q))

\* the rows of a table that are in the set kept, as many times as stored
KeepRows(rows, kept) == [r \in kept |-> rows[r]]

\* DELETE ...?chart_date=eq.<d>
DeleteDate(rows, d) ==
    KeepRows(rows, {r \in BagToSet(rows) : r.chart_date # d})

\* the rows of a table with chart_date d
RowsFor(rows, d) ==
    KeepRows(rows, {r \in BagToSet(rows) : r.chart_date = d})

Key(r) == <<r.chart_date, r.rank>>

KeysUnique(batch) ==
    \A i, j \in 1..Len(batch) : Key(batch[i]) = Key(batch[j]) => i = j

\* POST ...?on_conflict=chart_date,rank with resolution=merge-duplicates:
\* a row of the batch replaces the stored row with its key, the other stored
\* rows stay
MergeDuplicates(rows, batch) ==
    LET keys == {Key(batch[i]) : i \in 1..Len(batch)}
    IN  KeepRows(rows, {r \in BagToSet(rows) : Key(r) \notin keys})
            (+) SeqToBag(batch)

\* supabase_upsert(table, rows) on the stored rows, given the response
supabase_upsert(table, rows, batch, resp) ==
    IF batch = <<>>
    THEN [rows |-> rows, log |-> <<>>, raised |-> FALSE]
    ELSE [rows |-> IF resp = "ok" THEN MergeDuplicates(rows, batch) ELSE rows,
          log |-> <<Request("POST", table, resp)>>,
          raised |-> resp # "ok"]

\* replace_entries_for_date(table_name, entries) on the stored rows, given
\* the responses to the delete and to the insert
replace_entries_for_date(table, rows, batch, del, ins) ==
    IF batch = <<>>
    THEN [rows |-> rows, log |-> <<>>, raised |-> FALSE]
    ELSE IF batch[1].chart_date \in {NoDate, ""}
    THEN [rows |-> rows, log |-> <<>>, raised |-> FALSE]
    ELSE IF del = "exception"
    THEN [rows |-> rows,
          log |-> <<Request("DELETE", table, del)>>,
          raised |-> TRUE]
    ELSE LET d == batch[1].chart_date
             after_delete == IF del = "ok" THEN DeleteDate(rows, d) ELSE rows
         IN  [rows |-> IF ins = "ok"
                       THEN after_delete (+) SeqToBag(batch)
                       ELSE after_delete,
              log |-> <<Request("DELETE", table, del),
                        Request("POST", table, ins)>>,
              raised |-> ins # "ok"]

\* the store call of a script on its chart c
StoreCall(c, rows, batch, del, ins) ==
    IF c \in {"hot_100", "billboard_200"}
    THEN supabase_upsert(TableOf(c), rows, batch, ins)
    ELSE replace_entries_for_date(TableOf(c), rows, batch, del, ins)

NoCall == [batch |-> <<>>, ok |-> FALSE, twice |-> FALSE, left |-> EmptyBag]

InitPipeline ==
    /\ prog = "none"
    /\ chart = 0
    /\ store = [t \in Tables |-> EmptyBag]
    /\ log = <<>>
    /\ runs = 0
    /\ prev = [t \in Tables |-> NoCall]

--------------------------------------------------------------------------
(* Specification of the metric normaliser: one call of safe_int on each    *)
(* token of at most MaxLen characters.                                     *)

RECURSIVE Strings(_)
Strings(n) ==
    IF n = 0 THEN {<<>>}
    ELSE LET shorter == Strings(n - 1)
         IN  shorter \cup
             {Append(s, c) : s \in {t \in shorter : Len(t) = n - 1}, c \in Alphabet}

NoPage == [week_of |-> NoDate, date_header |-> FALSE, containers |-> <<>>]

InitNorm ==
    /\ value \in Strings(MaxLen)
    /\ ret = None
    /\ pc = "call"
    /\ parser = "none"
    /\ page = NoPage
    /\ today = "2025-11-22"
    /\ entries = <<>>
    /\ InitPipeline

SafeIntCall ==
    /\ pc = "call"
    /\ ret' = safe_int(value)
    /\ pc' = "returned"
    /\ UNCHANGED <<value, parser, page, today, entries>>
    /\ UNCHANGED pipeline

NextNorm == SafeIntCall

SpecNorm == InitNorm /\ [][NextNorm]_vars

--------------------------------------------------------------------------
(* Pages handed to the parsers: every sequence of at most MaxItems item     *)
(* containers, with and without a date on the page.                         *)

El(name, class, id, text) ==
    [name |-> name, class |-> class, id |-> id, text |-> text,
     attrs |-> <<"", "", "">>]

Img(lazy, data, src) ==
    [name |-> "img", class |-> {}, id |-> "", text |-> <<>>,
     attrs |-> <<lazy, data, src>>]

Container(kind, els) ==
    [kind |-> kind, els |-> els, has_stats |-> FALSE, stats |-> <<>>]

Item(kind, els, stats) ==
    [kind |-> kind, els |-> els, has_stats |-> TRUE, stats |-> stats]

BillboardContainers ==
    { \* rank 1, LW "-" and PEAK 1
      Container("ul.o-chart-results-list-row",
        << El("span", RankClass, "", <<"1">>),
           El("h3", {"c-title"}, "title-of-a-story", <<"A">>),
           El("span", {"c-label", "a-no-trucate"}, "", <<"x">>),
           El("span", {}, "", LabelLW), El("span", {}, "", <<"-">>),
           El("span", {}, "", LabelPEAK), El("span", {}, "", <<"1">>) >>),
      \* rank 2, LW 7
      Container("ul.o-chart-results-list-row",
        << El("span", RankClass, "", <<" ", "2">>),
           El("h3", {}, "", <<"B">>),
           El("span", {"c-label", "a-font-primary-s"}, "", <<"y">>),
           El("span", {}, "", LabelLW), El("span", {}, "", <<"7">>) >>),
      \* no rank element, a WEEKS label with no value
      Container("ul.o-chart-results-list-row",
        << El("h3", {}, "", <<"C">>),
           El("span", {"c-label", "a-no-trucate"}, "", <<"z">>),
           El("div", {}, "", LabelWEEKS) >>),
      \* an advertisement: neither title nor artist
      Container("ul.o-chart-results-list-row", <<>>),
      \* a rank element that reads "New"
      Container("ul.o-chart-results-list-row",
        << El("span", RankClass, "", <<"N", "e", "w">>),
           El("h3", {}, "", <<"E">>) >>),
      \* the second selector's markup, rank in a plain label, a cover image
      Container("li.o-chart-results-list__item",
        << El("span", {"c-label"}, "", <<"#", "2">>),
           El("h3", {}, "", <<"F">>),
           Img("", "cover.jpg", "lazy.gif") >>),
      \* the third selector's markup, rank 0
      Container("li.chart-list__element",
        << El("span", RankClass, "", <<"0">>),
           El("h3", {}, "", <<"G">>) >>) }

Stat(title, val) ==
    << El("span", {"metric-chart-stat-title"}, "", title),
       El("span", {"metric-chart-stat-value"}, "", val) >>

OfficialChartsItems ==
    { \* rank 1, LW "New", Peak 1
      Item("ol.chart-listing > li.chart-listing-item",
        << El("span", {"chart-listing-item-rank-text"}, "", <<"1">>),
           El("a", {"chart-name"}, "", <<"A">>),
           El("a", {"chart-artist"}, "", <<"x">>) >>,
        << Stat(LabelLW, <<"N", "e", "w">>),
           Stat(<<"P", "e", "a", "k">>, <<"1">>) >>),
      \* rank 2, no statistics
      Container("ol.chart-listing > li.chart-listing-item",
        << El("span", {"chart-listing-item-rank-text"}, "", <<"2">>),
           El("a", {"chart-name"}, "", <<"B">>),
           El("a", {"chart-artist"}, "", <<"y">>) >>),
      \* a rank element that reads "New"
      Container("ol.chart-listing > li.chart-listing-item",
        << El("span", {"chart-listing-item-rank-text"}, "", <<"N", "e", "w">>),
           El("a", {"chart-name"}, "", <<"C">>),
           El("a", {"chart-artist"}, "", <<"z">>) >>),
      \* no rank element, no artist
      Container("ol.chart-listing > li.chart-listing-item",
        << El("a", {"chart-name"}, "", <<"D">>) >>),
      \* an advertisement: neither title nor artist
      Container("ol.chart-listing > li.chart-listing-item", <<>>),
      \* the second selector's markup, rank 0, Wks 1,2
      Item("ol > li",
        << El("span", {"chart-listing-item-rank-text"}, "", <<"0">>),
           El("a", {"chart-artist"}, "", <<"w">>) >>,
        << Stat(<<"W", "k", "s">>, <<"1", ",", "2">>) >>),
      \* the third selector's markup, a statistic without its value
      Item(".chart-item-content",
        << El("a", {"chart-name"}, "", <<"G">>) >>,
        << <<El("span", {"metric-chart-stat-title"}, "", LabelLW)>> >>) }

RECURSIVE SeqsUpTo(_, _)
SeqsUpTo(S, n) ==
    IF n = 0 THEN {<<>>}
    ELSE LET shorter == SeqsUpTo(S, n - 1)
         IN  shorter \cup
             {Append(q, x) : q \in {t \in shorter : Len(t) = n - 1}, x \in S}

Parsers == {"hot_100", "billboard_200", "officialcharts"}

ContainersOf(p) ==
    IF p = "officialcharts" THEN OfficialChartsItems ELSE BillboardContainers

\* the date header element is looked up by the Official Charts parser alone
PagesOf(p, n) ==
    [week_of : Dates \cup {NoDate},
     date_header : IF p = "officialcharts" THEN BOOLEAN ELSE {FALSE},
     containers : SeqsUpTo(ContainersOf(p), n)]

Parse(p, pg, day) ==
    CASE p = "hot_100" -> parse_hot_100_items(pg, day)
      [] p = "billboard_200" -> parse_billboard_200_items(pg, day)
      [] p = "officialcharts" -> parse_officialcharts_soup(pg, day)

--------------------------------------------------------------------------
(* Specification of the parsers: one call of a parser on each page.         *)

InitParse ==
    /\ parser \in Parsers
    /\ page \in PagesOf(parser, MaxItems)
    /\ today \in Dates
    /\ entries = <<>>
    /\ pc = "call"
    /\ value = <<>>
    /\ ret = None
    /\ InitPipeline

ParseCall ==
    /\ pc = "call"
    /\ entries' = Parse(parser, page, today)
    /\ pc' = "returned"
    /\ UNCHANGED <<value, ret, parser, page, today>>
    /\ UNCHANGED pipeline

NextParse == ParseCall

SpecParse == InitParse /\ [][NextParse]_vars

--------------------------------------------------------------------------
(* Specification of the two scripts: each run fetches, parses and stores    *)
(* its two charts in order; a script is run at most MaxRuns times.          *)

\* the pages a chart site serves in the runs of the scripts
ServedContainers(p) ==
    IF p = "officialcharts"
    THEN { Container("ol.chart-listing > li.chart-listing-item",
             << El("span", {"chart-listing-item-rank-text"}, "", <<"1">>),
                El("a", {"chart-name"}, "", <<"A">>),
                El("a", {"chart-artist"}, "", <<"x">>) >>),
           Container("ol.chart-listing > li.chart-listing-item",
             << El("a", {"chart-name"}, "", <<"D">>) >>),
           Container("ol.chart-listing > li.chart-listing-item", <<>>) }
    ELSE { Container("ul.o-chart-results-list-row",
             << El("span", RankClass, "", <<"1">>),
                El("h3", {"c-title"}, "title-of-a-story", <<"A">>),
                El("span", {"c-label", "a-no-trucate"}, "", <<"x">>) >>),
           Container("ul.o-chart-results-list-row",
             << El("h3", {}, "", <<"C">>),
                El("span", {"c-label", "a-no-trucate"}, "", <<"z">>) >>),
           Container("ul.o-chart-results-list-row", <<>>) }

ServedPages(p) ==
    [week_of : Dates \cup {NoDate},
     date_header : {FALSE},
     containers : SeqsUpTo(ServedContainers(p), MaxItems)]

\* the database refuses an upsert whose batch holds a key twice
UpsertResponses(batch) ==
    IF KeysUnique(batch) THEN Responses ELSE Responses \ {"ok"}

Init ==
    /\ prog \in Programs
    /\ chart = 1
    /\ pc = "fetch"
    /\ today = "2025-11-22"
    /\ entries = <<>>
    /\ store = [t \in Tables |-> EmptyBag]
    /\ log = <<>>
    /\ runs = 1
    /\ prev = [t \in Tables |-> NoCall]
    /\ value = <<>>
    /\ ret = None
    /\ parser = "none"
    /\ page = NoPage

\* fetch_hot_100 / fetch_billboard_200: fetch_soup raises on a failed
\* request, and main does not catch it
FetchBillboard ==
    /\ prog = "scraper"
    /\ pc = "fetch"
    /\ \E resp \in Responses, pg \in ServedPages(ParserOf(Charts(prog)[chart])) :
        /\ log' = <<Request("GET", Charts(prog)[chart], resp)>>
        /\ IF resp = "ok"
           THEN /\ entries' = Parse(ParserOf(Charts(prog)[chart]), pg, today)
                /\ pc' = "store"
           ELSE /\ entries' = <<>>
                /\ pc' = "raised"
    /\ UNCHANGED <<value, ret, parser, page, today, prog, chart, store, runs,
                   prev>>

\* main: if entries: supabase_upsert(table, entries)
UpsertBillboard ==
    /\ prog = "scraper"
    /\ pc = "store"
    /\ \E resp \in UpsertResponses(entries) :
        LET c == Charts(prog)[chart]
            r == supabase_upsert(TableOf(c), store[TableOf(c)], entries, resp)
        IN  /\ store' = [store EXCEPT ![TableOf(c)] = r.rows]
            /\ log' = log \o r.log
            /\ pc' = IF r.raised THEN "raised"
                     ELSE IF chart = 2 THEN "done" ELSE "fetch"
            /\ chart' = IF ~r.raised /\ chart = 1 THEN 2 ELSE chart
    /\ UNCHANGED <<value, ret, parser, page, today, entries, prog, runs, prev>>

\* fetch_official_chart: a failed request is caught and gives no entries
FetchOfficial ==
    /\ prog = "uk_scraper"
    /\ pc = "fetch"
    /\ \E resp \in Responses, pg \in ServedPages(ParserOf(Charts(prog)[chart])) :
        /\ log' = <<Request("GET", Charts(prog)[chart], resp)>>
        /\ entries' = IF resp = "ok"
                      THEN Parse(ParserOf(Charts(prog)[chart]), pg, today)
                      ELSE <<>>
        /\ pc' = "store"
    /\ UNCHANGED <<value, ret, parser, page, today, prog, chart, store, runs,
                   prev>>

\* update_uk_*_chart: replace_entries_for_date(table, entries)
ReplaceOfficial ==
    /\ prog = "uk_scraper"
    /\ pc = "store"
    /\ \E del \in Responses, ins \in Responses :
        LET c == Charts(prog)[chart]
            r == replace_entries_for_date(TableOf(c), store[TableOf(c)],
                                          entries, del, ins)
        IN  /\ store' = [store EXCEPT ![TableOf(c)] = r.rows]
            /\ log' = log \o r.log
            /\ pc' = IF r.raised THEN "raised"
                     ELSE IF chart = 2 THEN "done" ELSE "fetch"
            /\ chart' = IF ~r.raised /\ chart = 1 THEN 2 ELSE chart
    /\ UNCHANGED <<value, ret, parser, page, today, entries, prog, runs, prev>>

\* the script is started again
StartRun ==
    /\ prog \in Programs
    /\ pc \in {"done", "raised"}
    /\ runs < MaxRuns
    /\ runs' = runs + 1
    /\ chart' = 1
    /\ pc' = "fetch"
    /\ entries' = <<>>
    /\ log' = <<>>
    /\ UNCHANGED <<value, ret, parser, page, today, prog, store, prev>>

Next ==
    \/ FetchBillboard
    \/ UpsertBillboard
    \/ FetchOfficial
    \/ ReplaceOfficial
    \/ StartRun

Spec == Init /\ [][Next]_vars

--------------------------------------------------------------------------
(* Specification of the store calls: at most MaxCalls calls in succession   *)
(* of a chart's store function, each with a batch a parser can return.      *)

Batches(c, day) ==
    {Parse(ParserOf(c), pg, day) :
        pg \in {q \in ServedPages(ParserOf(c)) : q.week_of # NoDate}}

InitStore ==
    /\ prog \in Programs
    /\ chart \in {1, 2}
    /\ pc = "call"
    /\ today = "2025-11-22"
    /\ entries = <<>>
    /\ store = [t \in Tables |-> EmptyBag]
    /\ log = <<>>
    /\ runs = 0
    /\ prev = [t \in Tables |-> NoCall]
    /\ value = <<>>
    /\ ret = None
    /\ parser = "none"
    /\ page = NoPage

\* what the call leaves for the next one to compare with: its batch, whether
\* it returned normally with every delete request answered 2xx, whether the
\* call before it was such a call with the same batch, and the rows of the
\* batch's date as the call found them
CallRecord(before, batch, rows, r, del, c) ==
    LET ok == /\ ~r.raised
              /\ batch # <<>>
              /\ (c \in {"singles-chart", "albums-chart"} => del = "ok")
    IN  [batch |-> batch,
         ok |-> ok,
         twice |-> ok /\ before.ok /\ before.batch = batch,
         left |-> IF batch = <<>> THEN EmptyBag
                  ELSE RowsFor(rows, batch[1].chart_date)]

Reconcile ==
    /\ pc \in {"call", "returned", "raised"}
    /\ runs < MaxCalls
    /\ \E batch \in Batches(Charts(prog)[chart], today),
          del \in Responses, ins \in Responses :
        LET c == Charts(prog)[chart]
            t == TableOf(c)
            r == StoreCall(c, store[t], batch, del, ins)
        IN  /\ (c \in {"hot_100", "billboard_200"} =>
                    del = "ok" /\ ins \in UpsertResponses(batch))
            /\ entries' = batch
            /\ store' = [store EXCEPT ![t] = r.rows]
            /\ log' = r.log
            /\ prev' = [prev EXCEPT
                          ![t] = CallRecord(prev[t], batch, store[t], r, del, c)]
            /\ pc' = IF r.raised THEN "raised" ELSE "returned"
    /\ runs' = runs + 1
    /\ UNCHANGED <<value, ret, parser, page, today, prog, chart>>

NextStore == Reconcile

SpecStore == InitStore /\ [][NextStore]_vars

--------------------------------------------------------------------------
(* Claims about the store paths and the runs of the scripts *)

\* the chart whose store call has just returned normally, 0 when none has
StoredChart ==
    IF pc = "done" THEN 2
    ELSE IF pc = "fetch" /\ chart = 2 THEN 1
    ELSE 0

Issued(method) == \E i \in 1..Len(log) : log[i].method = method

Answered(method, status) ==
    \E i \in 1..Len(log) : log[i].method = method /\ log[i].status = status

\* C1: after a pipeline run that persists a batch E for (c, d), the persisted
\* rows of c with chart_date d are exactly the rows of E, whatever was stored
\* for (c, d) before, on the upsert path as on the delete-then-insert path
\* (stated here for the runs whose delete request, if any, was answered 2xx).
C1_DateScopedReplace ==
    (StoredChart # 0 /\ Answered("POST", "ok") /\ ~Answered("DELETE", "rejected"))
        => RowsFor(store[TableOf(Charts(prog)[StoredChart])],
                   entries[1].chart_date) = SeqToBag(entries)

\* C2: two calls in succession of reconcile(c, d, E), E non-empty, both
\* returning normally with their delete requests answered 2xx, leave for
\* (c, d) the rows the first call left, and these are exactly E.
C2_ReconcileIdempotent ==
    \A t \in Tables :
        prev[t].twice =>
            /\ RowsFor(store[t], prev[t].batch[1].chart_date) = prev[t].left
            /\ RowsFor(store[t], prev[t].batch[1].chart_date)
                   = SeqToBag(prev[t].batch)

\* C3: a call of replace_entries_for_date with a non-empty batch always
\* attempts the insert after the delete, whether the delete succeeded or
\* failed, and raises if and only if the insert is rejected.
C3_DeleteNeverBlocksInsert ==
    (prog = "uk_scraper" /\ pc \in {"returned", "raised"} /\ entries # <<>>)
        => /\ Len(log) = 2
           /\ log[1].method = "DELETE"
           /\ log[Len(log)].method = "POST"
           /\ (pc = "raised") <=> (log[Len(log)].status # "ok")

DoubleSentinel(e) ==
    e.title \in {UnknownTitle, UnknownAlbum} /\ e.artist = UnknownArtist

\* C4: no entry whose title is the title sentinel and whose artist is
\* "Unknown Artist" is part of a batch handed to a store write.
C4_ValidationFilter ==
    (Issued("POST") \/ Issued("DELETE"))
        => \A i \in 1..Len(entries) : ~DoubleSentinel(entries[i])

\* C6: a transport error while fetching a chart aborts that chart alone: it
\* does not end the run with an error.
C6_FailureIsolation ==
    (Len(log) = 1 /\ log[1].method = "GET" /\ log[1].status # "ok")
        => pc # "raised"

\* C9: a chart run that ends with an empty batch (nothing matched, every
\* item dropped, or the fetch failed) issues no delete and no insert or
\* upsert, leaves the stored rows as they were, and does not raise.
C9_NothingToPersist ==
    [][(entries' = <<>> /\ log' # <<>>)
          => /\ store' = store
             /\ pc' # "raised"
             /\ \A i \in 1..Len(log') : log'[i].method = "GET"]_vars

RowsUnique(rows) ==
    /\ \A r \in BagToSet(rows) : rows[r] = 1
    /\ \A r1, r2 \in BagToSet(rows) : Key(r1) = Key(r2) => r1 = r2

\* C10: no two rows of a batch handed to the store, and no two persisted
\* rows of a table, have the same chart_date and the same rank (stated here
\* for the batches in which every entry has a title or an artist, and for
\* the tables as long as no delete request has been rejected).
C10_RankUnique ==
    /\ ( /\ Issued("POST") \/ Issued("DELETE")
         /\ \A i \in 1..Len(entries) : ~DoubleSentinel(entries[i]) )
            => KeysUnique(entries)
    /\ \A t \in Tables : RowsUnique(store[t]) \/ Answered("DELETE", "rejected")

--------------------------------------------------------------------------
(* Claims about the parsers *)

\* the positions, among the containers the cascade selected, of the ones
\* an entry was made from
KeptPositions ==
    LET rows == Cascade(page, IF parser = "officialcharts"
                              THEN OfficialChartsSelectors
                              ELSE BillboardSelectors)
    IN  SelectSeq([i \in 1..Len(rows) |-> i],
                  LAMBDA i : parser = "officialcharts"
                             => ~official_skips(page.containers[rows[i]].els))

ContainerOf(i) ==
    LET rows == Cascade(page, IF parser = "officialcharts"
                              THEN OfficialChartsSelectors
                              ELSE BillboardSelectors)
    IN  page.containers[rows[KeptPositions[i]]]

\* whether the container has no rank element, or one without a number
RankUnparsable(els) ==
    LET IsRankText(t) == "chart-listing-item-rank-text" \in t.class
        IsNumberLabel(t) ==
            t.name = "span" /\ "c-label" \in t.class /\ HasDigits(GetText(t))
        rank_el == First({k \in 1..Len(els) : IsRankText(els[k])})
    IN  IF parser = "officialcharts"
        THEN rank_el = 0 \/ ~AllDecimal(GetText(els[rank_el]))
        ELSE First({k \in 1..Len(els) : IsNumberLabel(els[k])}) = 0

\* C5: every entry has a non-null rank, and when the rank token of its
\* container is missing or is not a number (a rank element that reads "New"),
\* the rank is 1 + the 0-based position of the container in discovery order,
\* which is >= 1.
C5_RankFromPosition ==
    pc = "returned" =>
        \A i \in 1..Len(entries) :
            /\ entries[i].rank # None
            /\ RankUnparsable(ContainerOf(i).els)
                   => entries[i].rank = KeptPositions[i] /\ entries[i].rank >= 1

\* the number that directly follows the label in the block, None when the
\* label is missing or what follows it is not purely numeric
DirectValue(els, label) ==
    LET IsLabel(t) == Upper(GetText(t)) = label
        l == First({k \in 1..Len(els) : IsLabel(els[k])})
    IN  IF l = 0 \/ l = Len(els) THEN None
        ELSE IF AllDecimal(RemoveAll(GetText(els[l + 1]), ","))
             THEN IntOf(RemoveAll(GetText(els[l + 1]), ","))
        ELSE None

\* the elements of the block of an entry: of the container, and for the
\* Official Charts of its statistics
RECURSIVE Concat(_)
Concat(qs) == IF qs = <<>> THEN <<>> ELSE Head(qs) \o Concat(Tail(qs))

Block(c) == c.els \o Concat(c.stats)

\* C7: each stored metric is null or the number that directly follows its
\* label inside the block of the entry, and is null when what follows the
\* label is not purely numeric.
C7_MetricProvenance ==
    pc = "returned" =>
        \A i \in 1..Len(entries) :
            LET b == Block(ContainerOf(i))
                weeks == IF parser = "officialcharts" THEN LabelWKS ELSE LabelWEEKS
            IN  /\ entries[i].last_week_rank = DirectValue(b, LabelLW)
                /\ entries[i].peak_rank = DirectValue(b, LabelPEAK)
                /\ entries[i].weeks_on_chart = DirectValue(b, weeks)

--------------------------------------------------------------------------
(* C8: the metric normaliser *)

\* the token as the normaliser looks at it: commas removed, then trimmed
Cleaned(tok) == Strip(RemoveAll(tok, ","))

Dots(s) == Cardinality({i \in 1..Len(s) : s[i] = "."})

\* the digits in front of the first "." (the whole string when it has none)
RECURSIVE BeforeDot(_)
BeforeDot(s) ==
    IF s = <<>> \/ Head(s) = "." THEN <<>>
    ELSE <<Head(s)>> \o BeforeDot(Tail(s))

\* normalize as the claim states it: digits, or digits and one trailing "."
NormalizeClaimed(tok) ==
    LET t == Cleaned(tok)
    IN  IF t = <<>> \/ Lower(t) \in NullWords THEN None
        ELSE IF AllDecimal(t) THEN IntOf(t)
        ELSE IF t[Len(t)] = "." /\ AllDecimal(SubSeq(t, 1, Len(t) - 1))
             THEN IntOf(SubSeq(t, 1, Len(t) - 1))
        ELSE None

\* normalize as amended: digits with at most one ".", anywhere, truncated
NormalizeAmended(tok) ==
    LET t == Cleaned(tok)
    IN  IF t = <<>> \/ Lower(t) \in NullWords THEN None
        ELSE IF Dots(t) <= 1 /\ AllDecimal(RemoveAll(t, "."))
             THEN IntOf(BeforeDot(t))
        ELSE None

--------------------------------------------------------------------------
(* Claims about the selector cascade and the chart date of a batch *)

SelectorsOf(p) ==
    IF p = "officialcharts" THEN OfficialChartsSelectors ELSE BillboardSelectors

\* the containers of the page the k-th selector of the parser matches
Matched(k) ==
    {i \in 1..Len(page.containers) :
        page.containers[i].kind \in SelectorsOf(parser)[k]}

\* the selectors with a match before which no selector has one
Winning ==
    {k \in 1..Len(SelectorsOf(parser)) :
        Matched(k) # {} /\ \A j \in 1..(k - 1) : Matched(j) = {}}

\* the title and the artist an entry made from container i carries
SourceTitle(i) ==
    IF parser = "officialcharts" THEN official_title(page.containers[i].els)
    ELSE billboard_title(page.containers[i].els,
                         IF parser = "hot_100" THEN UnknownTitle
                         ELSE UnknownAlbum)

SourceArtist(i) ==
    IF parser = "officialcharts" THEN official_artist(page.containers[i].els)
    ELSE billboard_artist(page.containers[i].els)

\* whether the entries come, one per container at most and in document
\* order, from containers among from
EntriesFrom(from) ==
    \E f \in [1..Len(entries) -> from] :
        /\ \A a, b \in 1..Len(entries) : a < b => f[a] < f[b]
        /\ \A a \in 1..Len(entries) :
            /\ entries[a].title = SourceTitle(f[a])
            /\ entries[a].artist = SourceArtist(f[a])

C12_BatchDate ==
    pc = "returned" =>
        /\ \A i \in 1..Len(entries) :
            /\ entries[i].chart_date \in Dates
            /\ entries[i].chart_date = entries[1].chart_date
            /\ entries[i].chart_date \in {page.week_of, today}
            /\ page.week_of = NoDate => entries[i].chart_date = today
        /\ Len(entries)
              = Len(Parse(parser, [page EXCEPT !.week_of = "2025-11-15"], today))

\* an Official Charts page with no date on it and two items: two entries
\* with the current date
C12_Witness ==
    /\ pc = "returned"
    /\ parser = "officialcharts"
    /\ page.week_of = NoDate
    /\ Len(entries) = 2
    /\ entries[1].chart_date = today
    /\ entries[2].chart_date = today


==========================================================================
